---- MODULE Spec2Model ----
(***************************************************************************)
(* A model of @izzyjs/route: the provider that publishes the serialized    *)
(* routes (providers/izzy_provider.ts) and the Route / Routes engine that  *)
(* reads them back (src/route.ts).                                         *)
(*                                                                         *)
(* JavaScript strings are sequences of one-character strings, so that      *)
(* String.prototype.replace, split, join and the regular expressions the   *)
(* engine compiles are computed character by character.                    *)
(***************************************************************************)
EXTENDS Naturals, Sequences, FiniteSets

----------------------------------------------------------------------------
(* JavaScript string primitives                                            *)

\* s.startsWith(p, from): p occurs in s at index from (1-based).
OccursAt(s, p, from) ==
    /\ from + Len(p) - 1 <= Len(s)
    /\ \A k \in 1..Len(p) : s[from + k - 1] = p[k]

\* s.indexOf(p), 1-based; 0 when p does not occur (JavaScript's -1).
RECURSIVE IndexFrom(_, _, _)
IndexFrom(s, p, from) ==
    IF from + Len(p) - 1 > Len(s) THEN 0
    ELSE IF OccursAt(s, p, from) THEN from
    ELSE IndexFrom(s, p, from + 1)

IndexOf(s, p) == IndexFrom(s, p, 1)

Includes(s, p) == IndexOf(s, p) # 0

StartsWith(s, p) == OccursAt(s, p, 1)

\* GetSubstitution (ECMA-262 22.1.3.19.1) for a string pattern, which has no
\* captures: $$ is a dollar, $& the matched text, $` the text before the match,
\* $' the text after it; any other character, a lone $ included, stands for
\* itself.
RECURSIVE GetSubstitution(_, _, _, _)
GetSubstitution(matched, before, after, repl) ==
    IF repl = <<>> THEN <<>>
    ELSE IF Head(repl) = "$" /\ Len(repl) >= 2 /\ repl[2] \in {"$", "&", "`", "'"}
    THEN (CASE repl[2] = "$" -> <<"$">>
            [] repl[2] = "&" -> matched
            [] repl[2] = "`" -> before
            [] repl[2] = "'" -> after)
         \o GetSubstitution(matched, before, after, Tail(Tail(repl)))
    ELSE <<Head(repl)>> \o GetSubstitution(matched, before, after, Tail(repl))

\* s.replace(p, repl) with a string pattern p: the first occurrence only.
StringReplace(s, p, repl) ==
    LET i == IndexOf(s, p) IN
    IF i = 0 THEN s
    ELSE LET before == SubSeq(s, 1, i - 1)
             after  == SubSeq(s, i + Len(p), Len(s))
         IN before \o GetSubstitution(p, before, after, repl) \o after

\* s.split(sep) for a one-character separator.
RECURSIVE Split(_, _)
Split(s, sep) ==
    LET i == IndexOf(s, <<sep>>) IN
    IF i = 0 THEN <<s>>
    ELSE <<SubSeq(s, 1, i - 1)>> \o Split(SubSeq(s, i + 1, Len(s)), sep)

\* parts.join(sep).
RECURSIVE Join(_, _)
Join(parts, sep) ==
    IF parts = <<>> THEN <<>>
    ELSE IF Len(parts) = 1 THEN parts[1]
    ELSE parts[1] \o sep \o Join(Tail(parts), sep)

\* routeName.replace(/\*/g, '.*'): every star becomes dot-star.
RECURSIVE ReplaceStars(_)
ReplaceStars(s) ==
    IF s = <<>> THEN <<>>
    ELSE (IF Head(s) = "*" THEN <<".", "*">> ELSE <<Head(s)>>) \o ReplaceStars(Tail(s))

----------------------------------------------------------------------------
(* Regular expressions: new RegExp(source), test and match                 *)
(*                                                                         *)
(* The sources the engine compiles are made of ordinary characters, the    *)
(* dot (any character), dot-star (any run, greedy) and the group ([^/]+)   *)
(* (a capture of one or more non-slash characters, greedy).  No source is  *)
(* anchored and none is escaped.                                           *)

CaptureGroup == <<"(", "[", "^", "/", "]", "+", ")">>

RECURSIVE RegExp(_)
RegExp(src) ==
    IF src = <<>> THEN <<>>
    ELSE IF OccursAt(src, CaptureGroup, 1)
    THEN <<[t |-> "cap", c |-> ""]>> \o RegExp(SubSeq(src, Len(CaptureGroup) + 1, Len(src)))
    ELSE IF OccursAt(src, <<".", "*">>, 1)
    THEN <<[t |-> "star", c |-> ""]>> \o RegExp(SubSeq(src, 3, Len(src)))
    ELSE IF Head(src) = "."
    THEN <<[t |-> "any", c |-> ""]>> \o RegExp(Tail(src))
    ELSE <<[t |-> "lit", c |-> Head(src)]>> \o RegExp(Tail(src))

NoMatch == [ok |-> FALSE, caps |-> <<>>]

\* The length of the run of non-slash characters of s that starts at pos.
RECURSIVE RunNonSlash(_, _)
RunNonSlash(s, pos) ==
    IF pos > Len(s) \/ s[pos] = "/" THEN 0 ELSE 1 + RunNonSlash(s, pos + 1)

\* The backtracking matcher: tokens re[k..] against s from pos.  A greedy
\* token tries its longest run first and gives back one character at a time.
RECURSIVE MatchHere(_, _, _, _), Greedy(_, _, _, _, _, _)
MatchHere(re, k, s, pos) ==
    IF k > Len(re) THEN [ok |-> TRUE, caps |-> <<>>]
    ELSE CASE re[k].t = "lit" ->
                IF pos <= Len(s) /\ s[pos] = re[k].c
                THEN MatchHere(re, k + 1, s, pos + 1) ELSE NoMatch
           [] re[k].t = "any" ->
                IF pos <= Len(s) THEN MatchHere(re, k + 1, s, pos + 1) ELSE NoMatch
           [] re[k].t = "star" -> Greedy(re, k, s, pos, Len(s) + 1 - pos, 0)
           [] re[k].t = "cap"  -> Greedy(re, k, s, pos, RunNonSlash(s, pos), 1)

Greedy(re, k, s, pos, n, min) ==
    IF n < min THEN NoMatch
    ELSE LET r == MatchHere(re, k + 1, s, pos + n) IN
         IF r.ok
         THEN IF re[k].t = "cap"
              THEN [ok |-> TRUE, caps |-> <<SubSeq(s, pos, pos + n - 1)>> \o r.caps]
              ELSE r
         ELSE IF n = 0 THEN NoMatch ELSE Greedy(re, k, s, pos, n - 1, min)

\* s.match(regex) without the g flag: the leftmost match; caps are the
\* groups values[1], values[2], ...
RECURSIVE RegExpExecFrom(_, _, _)
RegExpExecFrom(re, s, start) ==
    IF start > Len(s) + 1 THEN NoMatch
    ELSE LET r == MatchHere(re, 1, s, start) IN
         IF r.ok THEN r ELSE RegExpExecFrom(re, s, start + 1)

RegExpExec(re, s) == RegExpExecFrom(re, s, 1)

\* regex.test(s).
RegExpTest(re, s) == RegExpExec(re, s).ok

----------------------------------------------------------------------------
(* Route definitions                                                       *)

\* What router.toJSON() holds for the routes the model draws from: a users
\* index, a users show page, and a route with two parameters, the name of one
\* a prefix of the name of the other.
RouteJSON_ui == [name |-> <<"u", ".", "i">>, pattern |-> <<"/", "u">>, methods |-> <<"GET">>]

RouteJSON_us ==
    [name |-> <<"u", ".", "s">>, pattern |-> <<"/", "u", "/", ":", "i">>, methods |-> <<"GET">>]

RouteJSON_pus ==
    [name |-> <<"p", "u", ".", "s">>,
     pattern |-> <<"/", "p", "/", ":", "i", "x", "/", ":", "i">>,
     methods |-> <<"PUT">>]

RouteJSONs == {RouteJSON_ui, RouteJSON_us, RouteJSON_pus}

\* serializeRoute: name, path and method of the route, and params, the names
\* of the path's ":name" segments in order, absent when the path has none.
RECURSIVE ParamNames(_)
ParamNames(segments) ==
    IF segments = <<>> THEN <<>>
    ELSE (IF StartsWith(Head(segments), <<":">>) THEN <<Tail(Head(segments))>> ELSE <<>>)
         \o ParamNames(Tail(segments))

serializeRoute(r) ==
    LET names == ParamNames(Split(r.pattern, "/")) IN
    [name |-> r.name, path |-> r.pattern, method |-> r.methods[1],
     hasParams |-> names # <<>>, params |-> names]

RECURSIVE MapSerialize(_)
MapSerialize(rs) ==
    IF rs = <<>> THEN <<>> ELSE <<serializeRoute(Head(rs))>> \o MapSerialize(Tail(rs))

----------------------------------------------------------------------------
(* Bounds and the inputs drawn from them                                   *)

\* The longest route list a registry holds.
MaxRoutes == 2

\* The most entries a query mapping holds.
MaxQuery == 1

RECURSIVE SeqsUpTo(_, _)
SeqsUpTo(S, n) ==
    IF n = 0 THEN {<<>>}
    ELSE LET shorter == SeqsUpTo(S, n - 1) IN
         shorter \cup {Append(q, e) : q \in {p \in shorter : Len(p) = n - 1}, e \in S}

Distinct(q) == \A i, j \in 1..Len(q) : i # j => q[i] # q[j]

\* The route lists a router or a registry may hold.
RouteJSONLists == {q \in SeqsUpTo(RouteJSONs, MaxRoutes) : Distinct(q)}

RouteLists == {MapSerialize(q) : q \in RouteJSONLists}

\* The raw paths a request or a page may be at.
Paths == {<<"/", "u">>, <<"/", "u", "/", "1">>}

\* The names callers pass: none, the three routes, an unknown one, and the
\* wildcard patterns over their groups.
NoName == <<>>

RouteNames == {<<"u", ".", "i">>, <<"u", ".", "s">>, <<"p", "u", ".", "s">>, <<"x", ".", "y">>}

Groups == {<<"u">>, <<"p">>, <<"p", "u">>, <<"x">>}

WildcardNames == {g \o <<".", "*">> : g \in Groups}

\* Parameter mappings: absent (undefined), or the entries in iteration order.
NoParams == [given |-> FALSE, entries |-> <<>>]

Entries(e) == [given |-> TRUE, entries |-> e]

Pair(k, v) == [k |-> k, v |-> v]

ParamValues == {<<"1">>, <<"2">>, <<"$", "$">>, <<"$", "&">>}

\* The (name, params) pairs callers pass: each route with no mapping, with an
\* empty one, with all of its parameters in either order, with some of them,
\* and with a mapping it does not declare.
Arguments(routeName, params) == [routeName |-> routeName, params |-> params]

NamedArguments ==
    {Arguments(<<"u", ".", "i">>, p) : p \in {NoParams, Entries(<<Pair(<<"i">>, <<"1">>)>>)}}
    \cup {Arguments(<<"u", ".", "s">>, p) :
             p \in {NoParams, Entries(<<>>)}
                   \cup {Entries(<<Pair(<<"i">>, v)>>) : v \in ParamValues}}
    \cup {Arguments(<<"p", "u", ".", "s">>, p) :
             p \in {NoParams, Entries(<<>>),
                    Entries(<<Pair(<<"i", "x">>, <<"1">>)>>),
                    Entries(<<Pair(<<"i", "x">>, <<"1">>), Pair(<<"i">>, <<"2">>)>>),
                    Entries(<<Pair(<<"i">>, <<"2">>), Pair(<<"i", "x">>, <<"1">>)>>),
                    Entries(<<Pair(<<"i", "x">>, <<":", "i">>), Pair(<<"i">>, <<"2">>)>>)}}
    \cup {Arguments(<<"x", ".", "y">>, p) : p \in {NoParams, Entries(<<Pair(<<"i">>, <<"1">>)>>)}}

\* Query mappings, in iteration order, with distinct keys.
QueryPairs == {Pair(<<"q">>, <<"a", " ", "b">>), Pair(<<"r">>, <<"1", "/">>)}

QueryInputs ==
    {q \in SeqsUpTo(QueryPairs, MaxQuery) : \A i, j \in 1..Len(q) : i # j => q[i].k # q[j].k}

Prefixes == {<<>>, <<"/", "a">>}

----------------------------------------------------------------------------
(* The program's state                                                     *)

VARIABLES
    isBrowser,      \* isBrowser(): the code runs in a page, not on the server
    router,         \* router.toJSON(): the domains, each with its routes
    readyDone,      \* IzzyRouteProvider.ready() has completed
    izzy,           \* globalThis.__izzy__
    izzy_route,     \* globalThis.__izzy_route__, which is window.__izzy_route__ in a page
    pathname,       \* window.location.pathname
    edgePlugin,     \* what edge.use(edgePluginIzzy(routes)) was given
    instance,       \* the Routes instance the caller holds
    call,           \* the last call made
    result          \* what it returned or threw

vars == <<isBrowser, router, readyDone, izzy, izzy_route, pathname, edgePlugin, instance,
          call, result>>

Unset == [set |-> FALSE]

Registry(routes, current) == [set |-> TRUE, routes |-> routes, current |-> current]

NoCall == [op |-> "none"]

NoResult == [kind |-> "none"]

Throw(error, routeName, detail) ==
    [kind |-> "throw", error |-> error, routeName |-> routeName, detail |-> detail]

----------------------------------------------------------------------------
(* Route (src/route.ts)                                                    *)

\* Route.izzy(): the registry of the environment the code runs in.  Reading
\* .routes of a binding that was never set throws a TypeError.
Route_izzy_of(browser, global, location) ==
    IF ~global.set THEN Throw("TypeError", <<>>, <<>>)
    ELSE IF browser
    THEN [kind |-> "izzy", routes |-> global.routes, current |-> location]
    ELSE [kind |-> "izzy", routes |-> global.routes, current |-> global.current]

Route_izzy == Route_izzy_of(isBrowser, izzy_route, pathname)

\* routes.find((r) => 'name' in r && r.name === routeName): the index of the
\* first route of that name from i on, 0 when there is none.
RECURSIVE FindByName(_, _, _)
FindByName(routes, routeName, i) ==
    IF i > Len(routes) THEN 0
    ELSE IF routes[i].name = routeName THEN i
    ELSE FindByName(routes, routeName, i + 1)

\* Route.replaceRouteParams: Object.entries(params).reduce over acc.replace.
RECURSIVE Route_replaceRouteParams(_, _)
Route_replaceRouteParams(routePath, entries) ==
    IF entries = <<>> THEN routePath
    ELSE Route_replaceRouteParams(
             StringReplace(routePath, <<":">> \o Head(entries).k, Head(entries).v),
             Tail(entries))

\* The application/x-www-form-urlencoded serializer of URLSearchParams, on the
\* characters the model draws: letters, digits, ".", "*" stay, a space is "+",
\* the others are percent-encoded.
UrlEncodeChar(c) ==
    CASE c = " " -> <<"+">>
      [] c = "/" -> <<"%", "2", "F">>
      [] c = ":" -> <<"%", "3", "A">>
      [] c = "$" -> <<"%", "2", "4">>
      [] c = "&" -> <<"%", "2", "6">>
      [] OTHER   -> <<c>>

RECURSIVE UrlEncode(_)
UrlEncode(s) ==
    IF s = <<>> THEN <<>> ELSE UrlEncodeChar(Head(s)) \o UrlEncode(Tail(s))

\* new URLSearchParams(qs).toString().
RECURSIVE SearchParamsToString(_)
SearchParamsToString(qs) ==
    IF qs = <<>> THEN <<>>
    ELSE UrlEncode(Head(qs).k) \o <<"=">> \o UrlEncode(Head(qs).v)
         \o (IF Len(qs) > 1 THEN <<"&">> \o SearchParamsToString(Tail(qs)) ELSE <<>>)

\* exist.params.map((p) => `"${p}"`).join(', ')
RECURSIVE Quoted(_)
Quoted(names) ==
    IF names = <<>> THEN <<>>
    ELSE <<(<<"\"">> \o Head(names) \o <<"\"">>)>> \o Quoted(Tail(names))

RequiredList(names) == Join(Quoted(names), <<",", " ">>)

\* The Route constructor without its check that a mapping was supplied: a
\* route that declares parameters resolves with none substituted.
Route_constructor_Unchecked(reg, routeName, params, qs, prefix) ==
    IF reg.kind = "throw" THEN reg
    ELSE
    LET at == FindByName(reg.routes, routeName, 1) IN
    IF at = 0 THEN Throw("RouteNotFound", routeName, <<>>)
    ELSE
    LET exist        == reg.routes[at]
        searchParams == SearchParamsToString(qs)
        substituted  == IF exist.hasParams
                        THEN Route_replaceRouteParams(exist.path, params.entries)
                        ELSE exist.path
        withQuery    == IF searchParams # <<>>
                        THEN substituted \o <<"?">> \o searchParams
                        ELSE substituted
        pattern      == IF prefix # <<>> THEN prefix \o withQuery ELSE withQuery
    IN [kind |-> "Route", url |-> pattern, path |-> pattern, name |-> exist.name,
        method |-> exist.method, hasParams |-> exist.hasParams, params |-> exist.params,
        pattern |-> exist.path, qs |-> qs]

\* The Route constructor.  reg is what Route.izzy() gave.
Route_constructor(reg, routeName, params, qs, prefix) ==
    IF reg.kind = "throw" THEN reg
    ELSE
    LET at == FindByName(reg.routes, routeName, 1) IN
    IF at = 0 THEN Throw("RouteNotFound", routeName, <<>>)
    ELSE
    LET exist        == reg.routes[at]
        searchParams == SearchParamsToString(qs)
    IN
    IF exist.hasParams /\ ~params.given
    THEN Throw("MissingParameters", routeName, RequiredList(exist.params))
    ELSE
    LET substituted == IF exist.hasParams
                       THEN Route_replaceRouteParams(exist.path, params.entries)
                       ELSE exist.path
        withQuery   == IF searchParams # <<>>
                       THEN substituted \o <<"?">> \o searchParams
                       ELSE substituted
        pattern     == IF prefix # <<>> THEN prefix \o withQuery ELSE withQuery
    IN [kind |-> "Route", url |-> pattern, path |-> pattern, name |-> exist.name,
        method |-> exist.method, hasParams |-> exist.hasParams, params |-> exist.params,
        pattern |-> exist.path, qs |-> qs]

\* The Routes constructor.
Routes_constructor(reg) ==
    IF reg.kind = "throw" THEN reg
    ELSE [kind |-> "Routes", routes |-> reg.routes, currentRoute |-> reg.current]

\* Route.new: no name gives the Routes instance, a name the Route.
Route_new(reg, routeName, params, qs, prefix) ==
    IF routeName = NoName THEN Routes_constructor(reg)
    ELSE Route_constructor(reg, routeName, params, qs, prefix)

\* route.toString().
Route_toString(route) == route.path

----------------------------------------------------------------------------
(* Routes (src/route.ts)                                                   *)

Boolean(b) == [kind |-> "boolean", value |-> b]

\* Routes.current comparing the current route with the route's pattern, not
\* with its path.
Routes_current_Pattern(self, reg, routeName, params) ==
    IF routeName = NoName THEN [kind |-> "string", text |-> self.currentRoute]
    ELSE IF Includes(routeName, <<"*">>)
    THEN Boolean(RegExpTest(RegExp(ReplaceStars(routeName)), self.currentRoute))
    ELSE LET route == Route_new(reg, routeName, params, <<>>, <<>>) IN
         IF route.kind = "throw" THEN route
         ELSE Boolean(self.currentRoute = route.pattern)

\* Routes.current.  reg is what Route.izzy() gives when the call is made:
\* Route.new reads the registry again.
Routes_current(self, reg, routeName, params) ==
    IF routeName = NoName THEN [kind |-> "string", text |-> self.currentRoute]
    ELSE IF Includes(routeName, <<"*">>)
    THEN Boolean(RegExpTest(RegExp(ReplaceStars(routeName)), self.currentRoute))
    ELSE LET route == Route_new(reg, routeName, params, <<>>, <<>>) IN
         IF route.kind = "throw" THEN route
         ELSE Boolean(self.currentRoute = Route_toString(route))

\* Routes.has with the wildcard read as a group prefix: the name starts with
\* the text before the star.
Routes_has_Prefix(self, routeName) ==
    IF Includes(routeName, <<"*">>)
    THEN Boolean(\E i \in 1..Len(self.routes) :
                    StartsWith(self.routes[i].name,
                               SubSeq(routeName, 1, IndexOf(routeName, <<"*">>) - 1)))
    ELSE Boolean(\E i \in 1..Len(self.routes) : self.routes[i].name = routeName)

\* Routes.has.
Routes_has(self, routeName) ==
    IF Includes(routeName, <<"*">>)
    THEN Boolean(\E i \in 1..Len(self.routes) :
                    RegExpTest(RegExp(ReplaceStars(routeName)), self.routes[i].name))
    ELSE Boolean(\E i \in 1..Len(self.routes) : self.routes[i].name = routeName)

\* path.split('/').map((p) => (p.startsWith(':') ? '([^/]+)' : p)).join('/')
RECURSIVE MapSegments(_)
MapSegments(segments) ==
    IF segments = <<>> THEN <<>>
    ELSE <<(IF StartsWith(Head(segments), <<":">>) THEN CaptureGroup ELSE Head(segments))>>
         \o MapSegments(Tail(segments))

PathRegExp(path) == RegExp(Join(MapSegments(Split(path, "/")), <<"/">>))

\* values[index + 1] of a match: undefined past the last group.
Undefined == <<"undefined">>

\* route.params.reduce((acc, param, index) => ({...acc, [param]: values[index + 1]}), {})
RECURSIVE ReduceParams(_, _, _)
ReduceParams(names, caps, index) ==
    IF index > Len(names) THEN <<>>
    ELSE <<Pair(names[index], IF index <= Len(caps) THEN caps[index] ELSE Undefined)>>
         \o ReduceParams(names, caps, index + 1)

Object(entries) == [kind |-> "object", entries |-> entries]

\* this.routes.find(({ path }) => regex.test(this.currentRoute)): the index of
\* the first route from i on whose regex finds a match in the current route.
RECURSIVE FindByPath(_, _, _)
FindByPath(routes, currentRoute, i) ==
    IF i > Len(routes) THEN 0
    ELSE IF RegExpTest(PathRegExp(routes[i].path), currentRoute) THEN i
    ELSE FindByPath(routes, currentRoute, i + 1)

\* The params getter.
Routes_params(self) ==
    LET at == FindByPath(self.routes, self.currentRoute, 1) IN
    IF at # 0 /\ self.routes[at].hasParams
    THEN LET values == RegExpExec(PathRegExp(self.routes[at].path), self.currentRoute) IN
         IF ~values.ok THEN Object(<<>>)
         ELSE Object(ReduceParams(self.routes[at].params, values.caps, 1))
    ELSE Object(<<>>)

----------------------------------------------------------------------------
(* The provider (providers/izzy_provider.ts)                               *)

\* routesJSON: every domain of the router with its routes serialized.
RECURSIVE SerializeDomains(_)
SerializeDomains(domains) ==
    IF domains = <<>> THEN <<>>
    ELSE <<[domain |-> Head(domains).domain, routes |-> MapSerialize(Head(domains).routes)]>>
         \o SerializeDomains(Tail(domains))

\* routesJSON.find((route) => route.domain === 'root'): its index, 0 when none.
RECURSIVE FindRoot(_, _)
FindRoot(routesJSON, i) ==
    IF i > Len(routesJSON) THEN 0
    ELSE IF routesJSON[i].domain = "root" THEN i
    ELSE FindRoot(routesJSON, i + 1)

\* What the routers of the model hold: no domain, a root domain after another
\* one, and another domain alone.
Routers ==
    {<<>>,
     <<[domain |-> "blog", routes |-> <<RouteJSON_pus>>],
       [domain |-> "root", routes |-> <<RouteJSON_ui, RouteJSON_us>>]>>,
     <<[domain |-> "blog", routes |-> <<RouteJSON_pus>>]>>}

\* #registerSsrRoutes(routes).
registerSsrRoutes(routes) == Registry(routes, <<>>)

\* #registerEdgePlugin(routes): what Edge holds afterwards.
registerEdgePlugin(usingEdgeJS, routes) ==
    IF ~usingEdgeJS THEN edgePlugin ELSE [set |-> TRUE, routes |-> routes]

\* ready(), on the server, once, when the application boots.
ProviderReady ==
    /\ ~isBrowser
    /\ ~readyDone
    /\ \E usingEdgeJS \in BOOLEAN :
          LET routesJSON == SerializeDomains(router)
              exists     == FindRoot(routesJSON, 1)
          IN IF exists # 0
             THEN /\ izzy' = registerSsrRoutes(routesJSON[exists].routes)
                  /\ edgePlugin' = registerEdgePlugin(usingEdgeJS, routesJSON[exists].routes)
             ELSE UNCHANGED <<izzy, edgePlugin>>
    /\ readyDone' = TRUE
    /\ call' = [op |-> "ready"]
    /\ result' = NoResult
    /\ UNCHANGED <<isBrowser, router, izzy_route, pathname, instance>>

----------------------------------------------------------------------------
(* The hosting environment (spec, section 6)                               *)

\* The code runs once the application has booted, or in a page; a call is made
\* when the one before it has returned.
Running == isBrowser \/ readyDone

Idle == Running /\ call = NoCall

\* The host writes the registry: the bootstrap data of a page, or the route
\* list and the current path of the request being rendered.
HostWrites ==
    /\ Idle
    /\ \E routes \in RouteLists, current \in (IF isBrowser THEN {<<>>} ELSE Paths) :
          izzy_route' = Registry(routes, current)
    /\ call' = NoCall
    /\ result' = NoResult
    /\ UNCHANGED <<isBrowser, router, readyDone, izzy, pathname, edgePlugin,
                   instance>>

\* A client-side navigation moves the page to another path.
Navigates ==
    /\ isBrowser
    /\ Idle
    /\ \E p \in Paths : pathname' = p
    /\ call' = NoCall
    /\ result' = NoResult
    /\ UNCHANGED <<isBrowser, router, readyDone, izzy, izzy_route, edgePlugin,
                   instance>>

----------------------------------------------------------------------------
(* The calls                                                               *)

\* Route.new(routeName, params, qs, prefix); with no name it is new Routes(),
\* and the caller holds the instance it gives.
CallRouteNew ==
    /\ Idle
    /\ \E a \in NamedArguments \cup {Arguments(NoName, NoParams)}, qs \in QueryInputs,
          prefix \in Prefixes :
          /\ a.routeName = NoName => qs = <<>> /\ prefix = <<>>
          /\ call' = [op |-> "Route.new", routeName |-> a.routeName, params |-> a.params,
                      qs |-> qs, prefix |-> prefix]
          /\ result' = Route_new(Route_izzy, a.routeName, a.params, qs, prefix)
    /\ instance' = IF result'.kind = "Routes" THEN result' ELSE instance
    /\ UNCHANGED <<isBrowser, router, readyDone, izzy, izzy_route, pathname,
                   edgePlugin>>

\* instance.current(routeName, params).
CallCurrent ==
    /\ Idle
    /\ instance.kind = "Routes"
    /\ \E a \in NamedArguments
                \cup {Arguments(n, NoParams) : n \in {NoName} \cup WildcardNames} :
          /\ call' = [op |-> "current", routeName |-> a.routeName, params |-> a.params]
          /\ result' = Routes_current(instance, Route_izzy, a.routeName, a.params)
    /\ UNCHANGED <<isBrowser, router, readyDone, izzy, izzy_route, pathname,
                   edgePlugin, instance>>

\* instance.has(routeName).
CallHas ==
    /\ Idle
    /\ instance.kind = "Routes"
    /\ \E routeName \in {NoName} \cup RouteNames \cup WildcardNames :
          /\ call' = [op |-> "has", routeName |-> routeName]
          /\ result' = Routes_has(instance, routeName)
    /\ UNCHANGED <<isBrowser, router, readyDone, izzy, izzy_route, pathname,
                   edgePlugin, instance>>

\* instance.params.
CallParams ==
    /\ Idle
    /\ instance.kind = "Routes"
    /\ call' = [op |-> "params"]
    /\ result' = Routes_params(instance)
    /\ UNCHANGED <<isBrowser, router, readyDone, izzy, izzy_route, pathname,
                   edgePlugin, instance>>

\* The call returns to its caller.
Returns ==
    /\ call # NoCall
    /\ call' = NoCall
    /\ result' = NoResult
    /\ UNCHANGED <<isBrowser, router, readyDone, izzy, izzy_route, pathname, edgePlugin,
                   instance>>

----------------------------------------------------------------------------
(* The specification                                                       *)

\* A page, where no provider runs, or a server whose router and configuration
\* are drawn; no global is set yet.
Init ==
    /\ isBrowser \in BOOLEAN
    /\ IF isBrowser
       THEN router = <<>> /\ pathname \in Paths
       ELSE router \in Routers /\ pathname = <<>>
    /\ readyDone = FALSE
    /\ izzy = Unset
    /\ izzy_route = Unset
    /\ edgePlugin = Unset
    /\ instance = NoResult
    /\ call = NoCall
    /\ result = NoResult

Next ==
    \/ ProviderReady
    \/ HostWrites
    \/ Navigates
    \/ CallRouteNew
    \/ CallCurrent
    \/ CallHas
    \/ CallParams
    \/ Returns

Spec == Init /\ [][Next]_vars

----------------------------------------------------------------------------
(* What the claims speak of                                                *)

\* The names of a route list, and the first definition of a name.
NamesOf(routes) == {routes[i].name : i \in 1..Len(routes)}

DefinitionOf(routes, routeName) ==
    routes[CHOOSE i \in 1..Len(routes) :
              /\ routes[i].name = routeName
              /\ \A j \in 1..(i - 1) : routes[j].name # routeName]

\* The keys a mapping supplies, and the value it gives a key.
Supplied(params) == {params.entries[i].k : i \in 1..Len(params.entries)}

ValueOf(params, key) ==
    params.entries[CHOOSE i \in 1..Len(params.entries) : params.entries[i].k = key].v

SuppliesAll(params, names) ==
    params.given /\ \A i \in 1..Len(names) : names[i] \in Supplied(params)

\* The registry a Routes instance captured when it was constructed.
CapturedRegistry(self) ==
    [kind |-> "izzy", routes |-> self.routes, current |-> self.currentRoute]

\* The call being looked at is a resolve of a name, or a named current().
Resolving == call.op = "Route.new" /\ Route_izzy.kind = "izzy"

\* The required names as the error lists them: each in double quotes, in
\* declaration order, separated by a comma and a space.
RECURSIVE ListedFrom(_, _)
ListedFrom(names, i) ==
    IF i > Len(names) THEN <<>>
    ELSE (IF i > 1 THEN <<",", " ">> ELSE <<>>) \o <<"\"">> \o names[i] \o <<"\"">>
         \o ListedFrom(names, i + 1)

\* A replacement of the first occurrence of token in s by value, as written.
LiteralReplace(s, token, value) ==
    IF \E i \in 1..Len(s) : OccursAt(s, token, i)
    THEN LET i == CHOOSE i \in 1..Len(s) :
                     OccursAt(s, token, i) /\ \A j \in 1..(i - 1) : ~OccursAt(s, token, j)
         IN SubSeq(s, 1, i - 1) \o value \o SubSeq(s, i + Len(token), Len(s))
    ELSE s

RECURSIVE ApplyInOrder(_, _)
ApplyInOrder(pattern, entries) ==
    IF entries = <<>> THEN pattern
    ELSE ApplyInOrder(LiteralReplace(pattern, <<":">> \o Head(entries).k, Head(entries).v),
                      Tail(entries))

\* The matcher of a path pattern, segment by segment: a ":name" segment takes
\* one or more non-slash characters, any other segment is itself.
SegmentsMatch(pattern, path) ==
    LET ps == Split(pattern, "/")
        qs == Split(path, "/")
    IN /\ Len(ps) = Len(qs)
       /\ \A i \in 1..Len(ps) :
             IF StartsWith(ps[i], <<":">>) THEN qs[i] # <<>> ELSE qs[i] = ps[i]

\* The first definition whose matcher matches the path, 0 when none does.
FirstMatching(routes, path) ==
    LET matching == {i \in 1..Len(routes) : SegmentsMatch(routes[i].path, path)} IN
    IF matching = {} THEN 0 ELSE CHOOSE i \in matching : \A j \in matching : i <= j

\* The segments of the path that the ":name" segments of the pattern take.
RECURSIVE TakenFrom(_, _, _)
TakenFrom(ps, qs, i) ==
    IF i > Len(ps) THEN <<>>
    ELSE (IF StartsWith(ps[i], <<":">>) THEN <<qs[i]>> ELSE <<>>) \o TakenFrom(ps, qs, i + 1)

Taken(pattern, path) == TakenFrom(Split(pattern, "/"), Split(path, "/"), 1)

\* The group of a wildcard name: the text before ".*".
GroupOf(wildcard) == SubSeq(wildcard, 1, Len(wildcard) - 2)

\* The name holds the group somewhere, with at least one character after it.
FollowedSomewhere(name, group) ==
    \E i \in 1..Len(name) : OccursAt(name, group, i) /\ i + Len(group) <= Len(name)

----------------------------------------------------------------------------
(* The claims                                                              *)

\* C1: every query on a Routes instance returns what it would have returned
\* right after construction: current(), current(name, params),
\* current(wildcard), has(x) and params are evaluated against the route list
\* and the current path the instance captured, whatever the global has become.
C1_QueriesUseTheCapturedRegistry ==
    /\ call.op = "current" =>
          result = Routes_current(instance, CapturedRegistry(instance), call.routeName,
                                  call.params)
    /\ call.op = "has" => result = Routes_has(instance, call.routeName)
    /\ call.op = "params" => result = Routes_params(instance)

C3_ResolvedRoutesSupplyEveryParameter ==
    (Resolving /\ result.kind = "Route") =>
       /\ result.name \in NamesOf(Route_izzy.routes)
       /\ result.pattern = DefinitionOf(Route_izzy.routes, result.name).path
       /\ result.hasParams => SuppliesAll(call.params, result.params)

\* No supplied name is the start of another: the order of the mapping does
\* not matter to the substitution.
CollisionFree(entries) ==
    \A i, j \in 1..Len(entries) : i # j => ~StartsWith(entries[i].k, entries[j].k)

\* C4: resolving a definition with a mapping that supplies exactly its
\* declared names, in an order the name collision does not affect, yields a
\* path in which no declared ":name" token remains.
C4_NoDeclaredTokenRemains ==
    ( /\ Resolving
      /\ result.kind = "Route"
      /\ result.hasParams
      /\ SuppliesAll(call.params, result.params)
      /\ Supplied(call.params) = {result.params[i] : i \in 1..Len(result.params)}
      /\ CollisionFree(call.params.entries) ) =>
       \A i \in 1..Len(result.params) : ~Includes(result.path, <<":">> \o result.params[i])

\* C5, as claimed: has(g.*) is true exactly when a name of the list starts
\* with g followed by a dot, and has(name) for a name without a star exactly
\* when the name is in the list.
C5_WildcardIsAGroupPrefix ==
    call.op = "has" =>
       IF call.routeName \in WildcardNames
       THEN result = Boolean(\E n \in NamesOf(instance.routes) :
                               StartsWith(n, GroupOf(call.routeName) \o <<".">>))
       ELSE result = Boolean(call.routeName \in NamesOf(instance.routes))

\* C5, amended: has(g.*), g made of letters, is true exactly when a name of the
\* list holds g anywhere in it, followed by at least one more character of any
\* kind; has(name) for a name without a star is true exactly when the name is
\* in the list.
C5_WildcardIsFoundAnywhere ==
    call.op = "has" =>
       IF call.routeName \in WildcardNames
       THEN result = Boolean(\E n \in NamesOf(instance.routes) :
                               FollowedSomewhere(n, GroupOf(call.routeName)))
       ELSE result = Boolean(call.routeName \in NamesOf(instance.routes))

\* C5, witness: has("u.*") was true of a list none of whose names starts with
\* "u.".
C5_FoundInsideAName ==
    /\ call.op = "has"
    /\ call.routeName = <<"u", ".", "*">>
    /\ result = Boolean(TRUE)
    /\ \A n \in NamesOf(instance.routes) : ~StartsWith(n, <<"u", ".">>)

\* The values of a mapping are non-empty and hold no slash.
PlainValues(params) ==
    \A i \in 1..Len(params.entries) :
       params.entries[i].v # <<>> /\ ~Includes(params.entries[i].v, <<"/">>)

\* C6: when the captured current path is the path that resolving a
\* parameterized definition d with plain values gives, and d is the first
\* definition whose matcher matches that path, params is the mapping from
\* each declared name of d to the value supplied; when the current path
\* matches no definition's matcher, params is the empty mapping.
C6_ParamsRoundTrip ==
    call.op = "params" =>
       LET routes == instance.routes
           path   == instance.currentRoute
       IN
       /\ \A a \in NamedArguments :
             ( /\ a.routeName \in NamesOf(routes)
               /\ DefinitionOf(routes, a.routeName).hasParams
               /\ SuppliesAll(a.params, DefinitionOf(routes, a.routeName).params)
               /\ PlainValues(a.params)
               /\ Route_new(CapturedRegistry(instance), a.routeName, a.params, <<>>, <<>>).path
                     = path
               /\ FirstMatching(routes, path) # 0
               /\ routes[FirstMatching(routes, path)] = DefinitionOf(routes, a.routeName) ) =>
                LET declared == DefinitionOf(routes, a.routeName).params IN
                /\ result.kind = "object"
                /\ Len(result.entries) = Len(declared)
                /\ \A i \in 1..Len(declared) :
                      result.entries[i] = Pair(declared[i], ValueOf(a.params, declared[i]))
       /\ FirstMatching(routes, path) = 0 => result = Object(<<>>)

C8_PathIsPrefixPatternQuery ==
    (Resolving /\ result.kind = "Route") =>
       LET d     == DefinitionOf(Route_izzy.routes, call.routeName)
           query == SearchParamsToString(call.qs)
       IN /\ result.path = call.prefix \o ApplyInOrder(d.path, call.params.entries)
                           \o (IF query # <<>> THEN <<"?">> \o query ELSE <<>>)
          /\ Route_toString(result) = result.path
          /\ result.pattern = d.path
          /\ result.name = d.name
          /\ result.method = d.method
          /\ result.hasParams = d.hasParams
          /\ result.params = d.params

\* C9: params is decided by the first definition, in list order, whose matcher
\* matches the current route: the empty mapping when none matches or when that
\* definition declares no parameters, otherwise its declared names, in order,
\* each with the part of the current route its segment takes.
C9_FirstMatchingDefinitionDecides ==
    call.op = "params" =>
       LET routes == instance.routes
           path   == instance.currentRoute
           at     == FirstMatching(routes, path)
       IN IF at = 0 \/ ~routes[at].hasParams
          THEN result = Object(<<>>)
          ELSE /\ result.kind = "object"
               /\ Len(result.entries) = Len(routes[at].params)
               /\ \A i \in 1..Len(routes[at].params) :
                     result.entries[i] = Pair(routes[at].params[i], Taken(routes[at].path, path)[i])

\* C10: on the server, once ready() has completed for a router with a root
\* group, Route.izzy() gives the serialized routes of that group and an empty
\* current path; for a router with no root group the provider wrote no
\* registry and Route.izzy() fails.
C10_ReadyPublishesTheRegistry ==
    call.op = "ready" =>
       LET roots == {i \in 1..Len(router) : router[i].domain = "root"} IN
       IF roots # {}
       THEN Route_izzy = [kind |-> "izzy",
                          routes |-> MapSerialize(router[CHOOSE i \in roots : TRUE].routes),
                          current |-> <<>>]
       ELSE Route_izzy.kind = "throw"

====
